---- MODULE Spec2Model ----
(***************************************************************************)
(* A model of the learning-path core of the Educational RAG system:        *)
(*   src/src/learning_path/planner.py    (LearningPathPlanner)             *)
(*   src/src/learning_path/generator.py  (LearningPathGenerator)           *)
(*   src/src/learning_path/assessor.py   (LearningStyleAssessor)           *)
(*   src/src/student_management/manager.py (StudentManager, path store)    *)
(*                                                                         *)
(* A content text is modelled by its word count (the only thing the        *)
(* duration estimate reads).  A dict key that is absent is the value NoKey.*)
(* An optional value (None or a value) is a sequence of length 0 or 1.     *)
(* Rates (completion_rate, average_performance) are in hundredths.         *)
(***************************************************************************)
EXTENDS Integers, Sequences, FiniteSets, TLC

VARIABLES
    pIn,        \* planner run: the arguments of plan_objectives
    pOut,       \* planner run: <<>> before the call, <<result>> after it
    pAll,       \* planner run: <<all_objectives>> as assembled before the sort
    aIn,        \* assessor run: the profile given to assess_learning_style
    aOut,       \* assessor run: <<>> before the call, <<result>> after it
    now,        \* the wall clock read by datetime.now(): [sec, usec]
    path,       \* the caller's LearningPath object: <<>> or <<path>>
    origin,     \* path_id, student_id, created_at of `path` as generated
    issued,     \* path_id of every generate_learning_path call, in call order
    last,       \* what the last generator operation did
    file,       \* the JSON file written by save_learning_path: <<>> or <<data>>
    loaded,     \* the result of the last load_learning_path: <<>> or <<path>>
    paths_file, \* StudentManager's learning_paths.json: a sequence of records
    got,        \* result of the last get_all_learning_paths: <<>> or <<list>>
    call,       \* a call of one of the pure methods: <<>> or <<[fn, ...arguments]>>
    ret,        \* what that call returned: <<>> before it, <<result>> after it
    students_file, \* StudentManager's students.json: a sequence of student dicts
    sres,       \* the last student-store operation and what it returned
    rec         \* a get_learning_path_recommendations call: <<>> or <<[...]>>

vars == <<pIn, pOut, pAll, aIn, aOut, now, path, origin, issued, last, file, loaded,
          paths_file, got, call, ret, students_file, sres, rec>>

NoKey == "<absent>"

\* dict.get(key, default)
Get(v, default) == IF v = NoKey THEN default ELSE v

Min(a, b) == IF a < b THEN a ELSE b
Max(a, b) == IF a > b THEN a ELSE b

RECURSIVE SumSeq(_)
SumSeq(s) == IF s = <<>> THEN 0 ELSE Head(s) + SumSeq(Tail(s))

RECURSIVE Flatten(_)
Flatten(ss) == IF ss = <<>> THEN <<>> ELSE Head(ss) \o Flatten(Tail(ss))

Range(s) == {s[i] : i \in DOMAIN s}

\* All orders in which the elements of a finite set can be iterated.
Perms(S) == {p \in [1..Cardinality(S) -> S] : \A i, j \in DOMAIN p : p[i] = p[j] => i = j}

\* The first m elements of every order random.shuffle can leave s in.
Arrangements(s, m) ==
    {[i \in 1..m |-> s[a[i]]] :
        a \in {f \in [1..m -> DOMAIN s] : \A i, j \in 1..m : f[i] = f[j] => i = j}}

(***************************************************************************)
(* Planner: src/src/learning_path/planner.py                               *)
(***************************************************************************)
min_objectives_per_path == 3
max_objectives_per_path == 10
min_duration_per_objective == 15
max_duration_per_objective == 60

ItemSubject(item) == Get(item.subject, "general")
ItemDifficulty(item) == Get(item.difficulty_level, "intermediate")

\* The keys of content_groups in dict (first insertion) order.
RECURSIVE GroupSubjects(_)
GroupSubjects(content) ==
    IF content = <<>> THEN <<>>
    ELSE LET rest == GroupSubjects(SubSeq(content, 1, Len(content) - 1))
             s == ItemSubject(content[Len(content)])
         IN IF s \in Range(rest) THEN rest ELSE Append(rest, s)

\* content_groups[subject][difficulty], in content order.
Group(content, subject, difficulty) ==
    LET Is(item) == ItemSubject(item) = subject /\ ItemDifficulty(item) = difficulty
    IN SelectSeq(content, Is)

HasTarget(target_duration) == target_duration # <<>> /\ target_duration[1] # 0

BaseCount(path_level) ==
    CASE path_level = "beginner" -> 4
      [] path_level = "intermediate" -> 6
      [] path_level = "advanced" -> 8
      [] OTHER -> 6

_determine_objective_count(path_level, target_duration) ==
    IF HasTarget(target_duration)
    THEN Min(Max(3, target_duration[1] \div 30), max_objectives_per_path)
    ELSE Min(BaseCount(path_level), max_objectives_per_path)

_get_difficulty_progression(path_level) ==
    CASE path_level = "beginner" -> <<"beginner", "beginner", "intermediate">>
      [] path_level = "intermediate" -> <<"intermediate", "intermediate", "advanced">>
      [] path_level = "advanced" -> <<"advanced", "advanced", "expert">>
      [] OTHER -> <<"intermediate", "advanced">>

PreferredTypes(primary_style) ==
    CASE primary_style = "visual" -> {"lesson", "tutorial", "concept"}
      [] primary_style = "auditory" -> {"lesson", "tutorial"}
      [] primary_style = "kinesthetic" -> {"exercise", "tutorial", "assessment"}
      [] OTHER -> {"lesson", "tutorial"}

\* the filter without the fallback to the unfiltered list
_filter_content_strictly(content, learning_style) ==
    LET preferred == PreferredTypes(Get(learning_style.primary_style, "visual"))
    IN SelectSeq(content, LAMBDA item : Get(item.content_type, "lesson") \in preferred)

_filter_content_by_learning_style(content, learning_style) ==
    LET preferred == PreferredTypes(Get(learning_style.primary_style, "visual"))
        Ok(item) == Get(item.content_type, "lesson") \in preferred
        filtered == SelectSeq(content, Ok)
    IN IF filtered = <<>> THEN content ELSE filtered

DifficultyMultiplier10(difficulty) ==
    CASE difficulty = "beginner" -> 8
      [] difficulty = "intermediate" -> 10
      [] difficulty = "advanced" -> 13
      [] difficulty = "expert" -> 15
      [] OTHER -> 10

\* int(base * multiplier) is (base * 10*multiplier) \div 10 for every base >= 15.
RawDuration(words, difficulty) ==
    (Max(15, words \div 50) * DifficultyMultiplier10(difficulty)) \div 10

\* the estimate without the final clamp to [15, 60]
UnclampedDuration(words, difficulty) == RawDuration(words, difficulty)

_estimate_objective_duration(words, difficulty) ==
    Max(min_duration_per_objective,
        Min(RawDuration(words, difficulty), max_duration_per_objective))

\* The description is cut from the item's text: a function of the item.
_extract_description_from_content(item) == <<"description", item.id>>

ContentObjective(item, subject, difficulty, i) ==
    [id |-> <<subject, difficulty, i>>,
     title |-> <<subject, difficulty, ToString(i + 1)>>,
     description |-> _extract_description_from_content(item),
     subject |-> subject,
     difficulty_level |-> difficulty,
     prerequisites |-> <<>>,
     estimated_duration |-> _estimate_objective_duration(item.words, difficulty),
     content_ids |-> <<item.id>>]

\* Every list _create_objectives_from_content can return (the shuffle decides).
_create_objectives_from_content(content, subject, difficulty, max_objectives) ==
    {[i \in 1..Len(a) |-> ContentObjective(a[i], subject, difficulty, i - 1)] :
        a \in Arrangements(content, Min(max_objectives, Len(content)))}

RECURSIVE PlanFrom(_, _, _, _, _, _, _)
PlanFrom(progression, k, objectives, content, subject, learning_style, n_objectives) ==
    IF k > Len(progression) THEN {objectives}
    ELSE LET difficulty == progression[k]
             content_for_difficulty == Group(content, subject, difficulty)
         IN IF content_for_difficulty # <<>> /\ Len(objectives) < n_objectives
            THEN LET filtered_content ==
                         _filter_content_by_learning_style(content_for_difficulty,
                                                           learning_style)
                 IN UNION {PlanFrom(progression, k + 1, objectives \o d, content,
                                    subject, learning_style, n_objectives) :
                             d \in _create_objectives_from_content(
                                       filtered_content, subject, difficulty,
                                       n_objectives - Len(objectives))}
            ELSE PlanFrom(progression, k + 1, objectives, content, subject,
                          learning_style, n_objectives)

_plan_subject_objectives(content, subject, learning_style, path_level, n_objectives) ==
    PlanFrom(_get_difficulty_progression(path_level), 1, <<>>, content, subject,
             learning_style, n_objectives)

FillerObjective(subject, content_item, k) ==
    [id |-> <<subject, "additional", k>>,
     title |-> <<subject, "Introduction">>,
     description |-> _extract_description_from_content(content_item),
     subject |-> subject,
     difficulty_level |-> "beginner",
     prerequisites |-> <<>>,
     estimated_duration |-> 30,
     content_ids |-> <<content_item.id>>]

RECURSIVE FillFrom(_, _, _, _, _, _)
FillFrom(order, k, additional, available_content, n_existing, target_count) ==
    IF k > Len(order) \/ n_existing + Len(additional) >= target_count
    THEN {additional}
    ELSE LET subject == order[k]
             Of(item) == item.subject = subject
             subject_content == SelectSeq(available_content, Of)
         IN IF subject_content # <<>>
            THEN UNION {FillFrom(order, k + 1,
                                 Append(additional,
                                        FillerObjective(subject, c, Len(additional))),
                                 available_content, n_existing, target_count) :
                          c \in Range(subject_content)}
            ELSE FillFrom(order, k + 1, additional, available_content, n_existing,
                          target_count)

\* the filler step offering every subject of the pool, covered or not
_add_additional_objectives_any_subject(available_content, existing_objectives, target_count) ==
    LET all_subjects == {ItemSubject(item) : item \in Range(available_content)}
    IN UNION {FillFrom(order, 1, <<>>, available_content, Len(existing_objectives),
                       target_count) : order \in Perms(all_subjects)}

_add_additional_objectives(available_content, existing_objectives, target_count) ==
    LET covered_subjects == {o.subject : o \in Range(existing_objectives)}
        all_subjects == {ItemSubject(item) : item \in Range(available_content)}
        uncovered_subjects == all_subjects \ covered_subjects
    IN UNION {FillFrom(order, 1, <<>>, available_content, Len(existing_objectives),
                       target_count) : order \in Perms(uncovered_subjects)}

DifficultyRank(difficulty) ==
    CASE difficulty = "beginner" -> 0
      [] difficulty = "intermediate" -> 1
      [] difficulty = "advanced" -> 2
      [] difficulty = "expert" -> 3
      [] OTHER -> 4

\* a sort by difficulty rank that turns each group of equal rank around
_sort_objectives_unstable(objectives) ==
    LET OfRank(r) == SelectSeq(objectives, LAMBDA o : DifficultyRank(o.difficulty_level) = r)
        Turned(s) == [i \in DOMAIN s |-> s[Len(s) + 1 - i]]
    IN Turned(OfRank(0)) \o Turned(OfRank(1)) \o Turned(OfRank(2))
       \o Turned(OfRank(3)) \o Turned(OfRank(4))

\* sorted(objectives, key=difficulty_key): Python's sort is stable.
_sort_objectives_by_difficulty_and_prerequisites(objectives) ==
    LET OfRank(r) == SelectSeq(objectives, LAMBDA o : DifficultyRank(o.difficulty_level) = r)
    IN OfRank(0) \o OfRank(1) \o OfRank(2) \o OfRank(3) \o OfRank(4)

\* Every all_objectives the loop over content_groups can build.
RECURSIVE SubjectsFrom(_, _, _, _, _, _, _)
SubjectsFrom(subjects, k, all_objectives, content, learning_style, path_level, share) ==
    IF k > Len(subjects) THEN {all_objectives}
    ELSE UNION {SubjectsFrom(subjects, k + 1, all_objectives \o so, content,
                             learning_style, path_level, share) :
                  so \in _plan_subject_objectives(content, subjects[k], learning_style,
                                                  path_level, share)}

WithAdditional(all_objectives, available_content, n_objectives) ==
    IF Len(all_objectives) < n_objectives
    THEN {all_objectives \o add :
            add \in _add_additional_objectives(available_content, all_objectives,
                                               n_objectives)}
    ELSE {all_objectives}

\* plan_objectives taking each subject's share before the loop over the groups:
\* for an empty pool the division by len(content_groups) raises, nothing is returned
plan_objectives_eager_share(available_content, learning_style, path_level, target_duration) ==
    LET subjects == GroupSubjects(available_content)
        n_objectives == _determine_objective_count(path_level, target_duration)
    IN IF subjects = <<>> THEN {}
       ELSE LET share == n_objectives \div Len(subjects)
                assembled ==
                    UNION {WithAdditional(all, available_content, n_objectives) :
                             all \in SubjectsFrom(subjects, 1, <<>>, available_content,
                                                  learning_style, path_level, share)}
            IN {LET sorted == _sort_objectives_by_difficulty_and_prerequisites(all)
                IN SubSeq(sorted, 1, Min(n_objectives, Len(sorted))) : all \in assembled}

\* all_objectives with every subject allowed the whole objective count
all_objectives_undivided(available_content, learning_style, path_level, target_duration) ==
    LET subjects == GroupSubjects(available_content)
        n_objectives == _determine_objective_count(path_level, target_duration)
    IN UNION {WithAdditional(all, available_content, n_objectives) :
                all \in SubjectsFrom(subjects, 1, <<>>, available_content,
                                     learning_style, path_level, n_objectives)}

\* Every all_objectives plan_objectives can hold when it reaches the sort.
all_objectives(available_content, learning_style, path_level, target_duration) ==
    LET subjects == GroupSubjects(available_content)
        n_objectives == _determine_objective_count(path_level, target_duration)
        share == IF subjects = <<>> THEN 0 ELSE n_objectives \div Len(subjects)
    IN UNION {WithAdditional(all, available_content, n_objectives) :
                all \in SubjectsFrom(subjects, 1, <<>>, available_content,
                                     learning_style, path_level, share)}

\* sorted_objectives[:n_objectives]
SortedPrefix(all, n_objectives) ==
    LET sorted == _sort_objectives_by_difficulty_and_prerequisites(all)
    IN SubSeq(sorted, 1, Min(n_objectives, Len(sorted)))

\* Every list plan_objectives can return.
plan_objectives(available_content, learning_style, path_level, target_duration) ==
    {SortedPrefix(all, _determine_objective_count(path_level, target_duration)) :
        all \in all_objectives(available_content, learning_style, path_level,
                               target_duration)}

\* The warnings of the loop over the objectives (planner.py:373-383); messages are
\* tuples of their text and the numbers formatted into it.
RECURSIVE DurationWarnings(_, _)
DurationWarnings(objectives, i) ==
    IF i > Len(objectives) THEN <<>>
    ELSE LET d == objectives[i].estimated_duration
         IN (IF d < min_duration_per_objective
             THEN <<<<"Objective duration is below minimum", i, d>>>> ELSE <<>>)
            \o (IF d > max_duration_per_objective
                THEN <<<<"Objective duration is above maximum", i, d>>>> ELSE <<>>)
            \o DurationWarnings(objectives, i + 1)

\* validate_learning_path in which any warning also makes the path invalid
validate_learning_path_strict(objectives) ==
    LET warnings == DurationWarnings(objectives, 1)
    IN [is_valid |-> Len(objectives) >= min_objectives_per_path /\ warnings = <<>>,
        issues |-> IF objectives = <<>> THEN <<<<"No objectives defined">>>> ELSE <<>>,
        warnings |-> warnings,
        total_duration |-> SumSeq([i \in DOMAIN objectives |->
                                     objectives[i].estimated_duration]),
        subjects_covered |-> {o.subject : o \in Range(objectives)},
        difficulty_levels |-> {o.difficulty_level : o \in Range(objectives)}]

validate_learning_path(objectives) ==
    IF objectives = <<>>
    THEN [is_valid |-> FALSE,
          issues |-> <<<<"No objectives defined">>>>,
          warnings |-> <<>>,
          total_duration |-> 0,
          subjects_covered |-> {},
          difficulty_levels |-> {}]
    ELSE LET total_duration == SumSeq([i \in DOMAIN objectives |->
                                         objectives[i].estimated_duration])
             subjects_covered == {o.subject : o \in Range(objectives)}
             too_few == Len(objectives) < min_objectives_per_path
         IN [is_valid |-> ~too_few,
             issues |-> IF too_few THEN <<<<"Too few objectives", Len(objectives)>>>>
                        ELSE <<>>,
             warnings |->
                 DurationWarnings(objectives, 1)
                 \o (IF total_duration < 30
                     THEN <<<<"Total duration is very short">>>> ELSE <<>>)
                 \o (IF Cardinality(subjects_covered) = 1
                     THEN <<<<"Path covers only one subject">>>> ELSE <<>>)
                 \o (IF Len(objectives) > max_objectives_per_path
                     THEN <<<<"Many objectives", Len(objectives)>>>> ELSE <<>>),
             total_duration |-> total_duration,
             subjects_covered |-> subjects_covered,
             difficulty_levels |-> {o.difficulty_level : o \in Range(objectives)}]

(***************************************************************************)
(* Assessor: src/src/learning_path/assessor.py                             *)
(***************************************************************************)
StyleOrder == <<"visual", "auditory", "kinesthetic", "reading_writing">>
Styles == Range(StyleOrder)

PrefKeys == {"videos", "diagrams", "images", "podcasts", "discussions", "lectures",
             "experiments", "hands_on", "interactive", "reading", "note_taking",
             "writing"}
BehaviorKeys == {"time_on_videos", "time_on_audio", "time_on_interactive", "time_on_text"}
PatternKeys == {"visual_tasks", "audio_tasks", "hands_on_tasks", "text_tasks"}

ZeroScores == [s \in Styles |-> 0]

TotalScore(scores) ==
    scores["visual"] + scores["auditory"] + scores["kinesthetic"] + scores["reading_writing"]

\* sorted(scores.items(), key=score, reverse=True)[k - 1][0]: the sort is stable,
\* so equal scores keep the dict order visual, auditory, kinesthetic, reading_writing.
SortedStyle(scores, k) ==
    LET Before(i) == Cardinality({j \in 1..4 :
                        \/ scores[StyleOrder[j]] > scores[StyleOrder[i]]
                        \/ scores[StyleOrder[j]] = scores[StyleOrder[i]] /\ j < i})
    IN StyleOrder[CHOOSE i \in 1..4 : Before(i) = k - 1]

\* scores after the loop over the responses (assessor.py:134-136)
RECURSIVE Tally(_)
Tally(responses) ==
    IF responses = <<>> THEN ZeroScores
    ELSE LET rest == Tally(Tail(responses))
             r == Head(responses)
         IN IF r \in Styles THEN [rest EXCEPT ![r] = @ + 1] ELSE rest

_analyze_assessment_results(assessment_results) ==
    LET scores == Tally(assessment_results)
        primary == SortedStyle(scores, 1)
        secondary == SortedStyle(scores, 2)
        total == TotalScore(scores)
    IN [primary_style |-> primary,
        secondary_style |-> secondary,
        scores |-> scores,
        primary_confidence |-> IF total > 0 THEN <<scores[primary], total>> ELSE <<0, 1>>,
        secondary_confidence |-> IF total > 0 THEN <<scores[secondary], total>> ELSE <<0, 1>>,
        inferred |-> FALSE]

\* x if x > 0 else nothing: "if prefs.get(k, 0) > 0: scores[..] += prefs[k]"
Pos(x) == IF x > 0 THEN x ELSE 0
Unit(b) == IF b THEN 1 ELSE 0

InferredScoresNoDefault(profile) ==
    LET cp == profile.content_preferences
        lb == profile.learning_behavior
        pp == profile.performance_patterns
    IN [visual |-> Pos(cp["videos"]) + Pos(cp["diagrams"]) + Pos(cp["images"])
                   + Unit(lb["time_on_videos"] > lb["time_on_text"])
                   + Unit(pp["visual_tasks"] > pp["text_tasks"]),
        auditory |-> Pos(cp["podcasts"]) + Pos(cp["discussions"]) + Pos(cp["lectures"])
                   + Unit(lb["time_on_audio"] > lb["time_on_text"])
                   + Unit(pp["audio_tasks"] > pp["text_tasks"]),
        kinesthetic |-> Pos(cp["experiments"]) + Pos(cp["hands_on"]) + Pos(cp["interactive"])
                   + Unit(lb["time_on_interactive"] > lb["time_on_text"])
                   + Unit(pp["hands_on_tasks"] > pp["text_tasks"]),
        reading_writing |-> Pos(cp["reading"]) + Pos(cp["note_taking"]) + Pos(cp["writing"])
                   + Unit(lb["time_on_text"] > 0)
                   + Unit(pp["text_tasks"] > 0)]

InferredScores(profile) ==
    LET scores == InferredScoresNoDefault(profile)
    IN IF TotalScore(scores) = 0 THEN [scores EXCEPT !["visual"] = 1] ELSE scores

_infer_learning_style_from_profile(profile) ==
    LET scores == InferredScores(profile)
    IN [primary_style |-> SortedStyle(scores, 1),
        secondary_style |-> SortedStyle(scores, 2),
        scores |-> scores,
        primary_confidence |-> <<6, 10>>,
        secondary_confidence |-> <<4, 10>>,
        inferred |-> TRUE]

assess_learning_style(profile) ==
    IF profile.learning_style_assessment # <<>>
    THEN _analyze_assessment_results(profile.learning_style_assessment[1])
    ELSE _infer_learning_style_from_profile(profile)

(***************************************************************************)
(* The vector store's collection and VectorStore.get_by_metadata           *)
(* (src/src/vector_store/store.py).  The collection is the retrieval       *)
(* collaborator's data; the planner runs draw their pools from it too.     *)
(***************************************************************************)
Item(id, subject, difficulty, type, words) ==
    [id |-> id, subject |-> subject, difficulty_level |-> difficulty,
     content_type |-> type, words |-> words]

Collection ==
    <<Item("m1", "mathematics", "beginner", "lesson", 400),
      Item("m2", "mathematics", "beginner", "exercise", 2000),
      Item("m3", "mathematics", "advanced", NoKey, 5000),
      Item("p1", "physics", "intermediate", "tutorial", 1500),
      Item("p2", "physics", "expert", "lesson", 3000)>>

QueryDifficulties == {"beginner", "intermediate", "advanced"}

\* get_by_metadata({'subject': s, 'difficulty_level': {'$in': [...]}}, 100);
\* a failing collection query is caught and answered with [].
get_by_metadata(subject, fails) ==
    IF fails THEN <<>>
    ELSE SelectSeq(Collection,
                   LAMBDA item : item.subject = subject
                                 /\ item.difficulty_level \in QueryDifficulties)

(***************************************************************************)
(* Generator: src/src/learning_path/generator.py                           *)
(***************************************************************************)
GetOpt(o, default) == IF o = <<>> THEN default ELSE o[1]

TimeLE(a, b) == a.sec < b.sec \/ (a.sec = b.sec /\ a.usec <= b.usec)

\* datetime.strftime('%Y%m%d_%H%M%S'): the time to the second
strftime_seconds(t) == t.sec

\* isoformat(timespec='seconds'): the microseconds are dropped
isoformat_seconds(t) == <<t.sec>>

\* datetime.isoformat(): the microseconds are written only when not zero
isoformat(t) == IF t.usec = 0 THEN <<t.sec>> ELSE <<t.sec, t.usec>>

IsIsoFormat(s) == Len(s) \in {1, 2}

\* datetime.fromisoformat()
fromisoformat(s) == [sec |-> s[1], usec |-> IF Len(s) > 1 THEN s[2] ELSE 0]

LevelOrder == <<"beginner", "intermediate", "advanced">>

\* self.path_templates[path_level]['difficulty_progression']
path_templates(path_level) ==
    CASE path_level = "beginner" -> <<"beginner", "beginner", "intermediate">>
      [] path_level = "intermediate" -> <<"intermediate", "intermediate", "advanced">>
      [] path_level = "advanced" -> <<"advanced", "advanced", "expert">>

\* the votes with current_level counted once instead of twice
Factors_single_weight(profile) ==
    LET current_level == Get(profile.current_level, "beginner")
        avg_performance == GetOpt(profile.average_performance, 50)
        learning_pace == Get(profile.learning_pace, "normal")
        time_availability == Get(profile.time_availability, "medium")
        perf_level == IF avg_performance > 80 THEN "advanced"
                      ELSE IF avg_performance > 60 THEN "intermediate"
                      ELSE "beginner"
    IN [l \in Range(LevelOrder) |->
          Unit(l = current_level)
          + Unit(l = perf_level)
          + Unit(l = "advanced" /\ learning_pace = "fast")
          + Unit(l = "beginner" /\ learning_pace = "slow")
          + Unit(l = "advanced" /\ time_availability = "high")
          + Unit(l = "beginner" /\ time_availability = "low")]

Factors(profile) ==
    LET current_level == Get(profile.current_level, "beginner")
        avg_performance == GetOpt(profile.average_performance, 50)
        learning_pace == Get(profile.learning_pace, "normal")
        time_availability == Get(profile.time_availability, "medium")
        perf_level == IF avg_performance > 80 THEN "advanced"
                      ELSE IF avg_performance > 60 THEN "intermediate"
                      ELSE "beginner"
    IN [l \in Range(LevelOrder) |->
          (IF l = current_level THEN 2 ELSE 0)
          + Unit(l = perf_level)
          + Unit(l = "advanced" /\ learning_pace = "fast")
          + Unit(l = "beginner" /\ learning_pace = "slow")
          + Unit(l = "advanced" /\ time_availability = "high")
          + Unit(l = "beginner" /\ time_availability = "low")]

\* max(factors, key=factors.get): the first level of the dict with the highest score
_determine_path_level(profile) ==
    LET f == Factors(profile)
        best == CHOOSE i \in 1..3 :
                    /\ \A j \in 1..3 : f[LevelOrder[j]] <= f[LevelOrder[i]]
                    /\ \A j \in 1..(i - 1) : f[LevelOrder[j]] < f[LevelOrder[i]]
    IN LevelOrder[best]

\* _get_available_content without the filter on completed_content
_get_available_content_unfiltered(subjects, completed_content, failing) ==
    Flatten([i \in DOMAIN subjects |->
               get_by_metadata(subjects[i], subjects[i] \in failing)])

\* _get_available_content querying every subject of the collection, whatever
\* subjects were asked for
_get_available_content_every_subject(subjects, completed_content, failing) ==
    LET every == GroupSubjects(Collection)
        fetched == Flatten([i \in DOMAIN every |->
                              get_by_metadata(every[i], every[i] \in failing)])
    IN SelectSeq(fetched, LAMBDA content : content.id \notin completed_content)

\* `failing` are the subjects whose collection query raises inside get_by_metadata.
_get_available_content(subjects, completed_content, failing) ==
    LET fetched == Flatten([i \in DOMAIN subjects |->
                              get_by_metadata(subjects[i], subjects[i] \in failing)])
    IN SelectSeq(fetched, LAMBDA content : content.id \notin completed_content)

TotalDuration(objectives) ==
    SumSeq([i \in DOMAIN objectives |-> objectives[i].estimated_duration])

ObjectiveSubjects(objectives) == {o.subject : o \in Range(objectives)}

\* `subjects` is list(set(...)) in the order the set iterates; t1, t2, t3 are the
\* three readings of datetime.now().
_create_learning_path(student_id, objectives, learning_style, path_level, subjects, t1, t2, t3) ==
    [student_id |-> student_id,
     path_id |-> <<student_id, strftime_seconds(t1)>>,
     title |-> subjects,
     description |-> learning_style.primary_style,
     objectives |-> objectives,
     estimated_total_duration |-> TotalDuration(objectives),
     difficulty_progression |-> path_templates(path_level),
     subjects |-> subjects,
     created_at |-> t2,
     updated_at |-> t3,
     status |-> "active"]

\* _analyze_progress with the upper performance threshold taken inclusive (>= 0.8)
_analyze_progress_inclusive(student_progress) ==
    LET completion_rate == GetOpt(student_progress.completion_rate, 50)
        avg_performance == GetOpt(student_progress.average_performance, 50)
        by_completion == IF completion_rate < 30 THEN "beginner"
                         ELSE IF completion_rate > 80 THEN "advanced"
                         ELSE "intermediate"
        current_level == IF avg_performance < 40 THEN "beginner"
                         ELSE IF avg_performance >= 80 THEN "advanced"
                         ELSE by_completion
    IN [needs_adaptation |-> \/ completion_rate < 30 \/ completion_rate > 80
                             \/ avg_performance < 40 \/ avg_performance >= 80,
        current_level |-> current_level,
        learning_pace |-> IF completion_rate < 30 THEN "slow"
                          ELSE IF completion_rate > 80 THEN "fast" ELSE "normal",
        time_availability |-> "medium",
        path_level |-> current_level]

\* _analyze_progress in which a completion_rate threshold that fires decides the
\* level and the performance is looked at only when none does
_analyze_progress_completion_first(student_progress) ==
    LET completion_rate == GetOpt(student_progress.completion_rate, 50)
        avg_performance == GetOpt(student_progress.average_performance, 50)
        by_performance == IF avg_performance < 40 THEN "beginner"
                          ELSE IF avg_performance > 80 THEN "advanced"
                          ELSE "intermediate"
        current_level == IF completion_rate < 30 THEN "beginner"
                         ELSE IF completion_rate > 80 THEN "advanced"
                         ELSE by_performance
    IN [needs_adaptation |-> \/ completion_rate < 30 \/ completion_rate > 80
                             \/ avg_performance < 40 \/ avg_performance > 80,
        current_level |-> current_level,
        learning_pace |-> IF completion_rate < 30 THEN "slow"
                          ELSE IF completion_rate > 80 THEN "fast" ELSE "normal",
        time_availability |-> "medium",
        path_level |-> current_level]

_analyze_progress(student_progress) ==
    LET completion_rate == GetOpt(student_progress.completion_rate, 50)
        avg_performance == GetOpt(student_progress.average_performance, 50)
        by_completion == IF completion_rate < 30 THEN "beginner"
                         ELSE IF completion_rate > 80 THEN "advanced"
                         ELSE "intermediate"
        current_level == IF avg_performance < 40 THEN "beginner"
                         ELSE IF avg_performance > 80 THEN "advanced"
                         ELSE by_completion
    IN [needs_adaptation |-> \/ completion_rate < 30 \/ completion_rate > 80
                             \/ avg_performance < 40 \/ avg_performance > 80,
        current_level |-> current_level,
        learning_pace |-> IF completion_rate < 30 THEN "slow"
                          ELSE IF completion_rate > 80 THEN "fast" ELSE "normal",
        time_availability |-> "medium",
        path_level |-> current_level]

\* adapt_learning_path replacing the objectives without refreshing the total
AdaptedPathStale(learning_path, new_objectives, t) ==
    [learning_path EXCEPT !.objectives = new_objectives, !.updated_at = t]

\* adapt_learning_path stamping the adapted path as newly created
AdaptedPathRecreated(learning_path, new_objectives, t) ==
    [learning_path EXCEPT !.objectives = new_objectives,
                          !.estimated_total_duration = TotalDuration(new_objectives),
                          !.created_at = t,
                          !.updated_at = t]

\* learning_path.objectives, .estimated_total_duration and .updated_at as
\* adapt_learning_path assigns them (generator.py:269-271)
AdaptedPath(learning_path, new_objectives, t) ==
    [learning_path EXCEPT !.objectives = new_objectives,
                          !.estimated_total_duration = TotalDuration(new_objectives),
                          !.updated_at = t]

(***************************************************************************)
(* Inputs                                                                  *)
(***************************************************************************)
MaxPool == 3   \* most items in a pool handed to plan_objectives directly
MaxSec == 0    \* the clock runs over seconds 0..MaxSec
MaxUsec == 1   \* and microseconds 0..MaxUsec within a second
MaxGen == 2    \* most generate_learning_path calls in one run

Times == [sec : 0..MaxSec, usec : 0..MaxUsec]

Reverse(s) == [i \in DOMAIN s |-> s[Len(s) + 1 - i]]

\* The elements of s at the indices in S, in the order of s.
Pick(s, S) ==
    LET tagged == [i \in DOMAIN s |-> <<i, s[i]>>]
        kept == SelectSeq(tagged, LAMBDA x : x[1] \in S)
    IN [i \in DOMAIN kept |-> kept[i][2]]

\* Content handed to plan_objectives directly: the collection's items and items
\* whose metadata lacks keys or carries tags outside the known ones.
PoolItems ==
    Collection \o
    <<Item("m4", "mathematics", "intermediate", "concept", 600),
      Item("p3", "physics", "advanced", "exercise", 1000),
      Item("g1", NoKey, "guru", "lesson", 10000),
      Item("g2", "general", NoKey, "assessment", 900)>>

\* A pool of more subjects than the smallest objective count.
WidePool ==
    <<Collection[1], Collection[5],
      Item("g2", "general", NoKey, "assessment", 900),
      Item("c1", "chemistry", "expert", "lesson", 800)>>

Pools ==
    {Pick(c, S) : c \in {PoolItems, Reverse(PoolItems)},
                  S \in {T \in SUBSET DOMAIN PoolItems : Cardinality(T) <= MaxPool}}
    \cup {WidePool, Reverse(WidePool)}

PlanInputs ==
    [available_content : Pools,
     learning_style : [primary_style : {"visual", "kinesthetic", "reading_writing", NoKey}],
     path_level : {"beginner", "intermediate", "advanced", "expert"},
     target_duration : {<<>>, <<0>>, <<45>>, <<120>>, <<400>>}]

NoPrefs == [k \in PrefKeys |-> 0]
NoBehavior == [k \in BehaviorKeys |-> 0]
NoPatterns == [k \in PatternKeys |-> 0]

\* A profile dict holding the student_id only.
BareProfile(student_id) ==
    [student_id |-> student_id,
     current_level |-> NoKey,
     average_performance |-> <<>>,
     learning_pace |-> NoKey,
     time_availability |-> NoKey,
     completed_content |-> {},
     learning_style_assessment |-> <<>>,
     content_preferences |-> NoPrefs,
     learning_behavior |-> NoBehavior,
     performance_patterns |-> NoPatterns]

\* the re-planning profile carrying the quiz answers of a kinesthetic learner
AdaptProfile_with_answers(student_id, progress_analysis) ==
    [BareProfile(student_id) EXCEPT
        !.current_level = progress_analysis.current_level,
        !.learning_pace = progress_analysis.learning_pace,
        !.time_availability = progress_analysis.time_availability,
        !.learning_style_assessment = <<<<"kinesthetic", "kinesthetic">>>>]

\* The profile adapt_learning_path builds for re-planning (generator.py:251-256)
AdaptProfile(student_id, progress_analysis) ==
    [BareProfile(student_id) EXCEPT
        !.current_level = progress_analysis.current_level,
        !.learning_pace = progress_analysis.learning_pace,
        !.time_availability = progress_analysis.time_availability]

Students == {"s1", "s2"}

\* Student profiles as the student store holds them (setup.py's samples carry the
\* same keys); a profile may lack any optional key.
Profiles ==
    {BareProfile("s1"),
     [BareProfile("s1") EXCEPT !.current_level = "intermediate",
                               !.average_performance = <<70>>,
                               !.completed_content = {"m1", "p1"},
                               !.content_preferences = [NoPrefs EXCEPT !["reading"] = 4]],
     [BareProfile("s2") EXCEPT !.current_level = "advanced",
                               !.learning_pace = "fast",
                               !.time_availability = "high",
                               !.learning_style_assessment =
                                   <<<<"kinesthetic", "visual", "kinesthetic">>>>]}

SubjectLists == {<<>>, <<"mathematics">>, <<"physics", "mathematics">>}

Targets == {<<>>, <<100>>}

ProgressRecords ==
    [completion_rate : {<<>>, <<29>>, <<31>>, <<80>>, <<81>>},
     average_performance : {<<39>>, <<80>>, <<81>>},
     completed_content : {{}, {"m2"}}]

\* The "no adaptation needed" band of the specification:
\* completion_rate in (0.3, 0.8] and average_performance in (0.4, 0.8].
InBand(student_progress) ==
    /\ student_progress.completion_rate # <<>>
    /\ student_progress.average_performance # <<>>
    /\ student_progress.completion_rate[1] > 30
    /\ student_progress.completion_rate[1] <= 80
    /\ student_progress.average_performance[1] > 40
    /\ student_progress.average_performance[1] <= 80

NoLast == [op |-> "none", triggered |-> FALSE, band |-> FALSE, queries |-> 0,
           target |-> <<>>, completed |-> {}, failing |-> {}, style |-> <<>>]

PlanIdle == pIn = <<>> /\ pOut = <<>> /\ pAll = <<>>
AssessIdle == aIn = <<>> /\ aOut = <<>>
GenIdle == /\ now = [sec |-> 0, usec |-> 0] /\ path = <<>> /\ origin = <<>>
           /\ issued = <<>> /\ last = NoLast
FileIdle == file = <<>> /\ loaded = <<>>
StoreIdle == paths_file = <<>> /\ got = <<>>
PureIdle == call = <<>> /\ ret = <<>>
StudentsIdle == students_file = <<>> /\ sres = <<>>
RecIdle == rec = <<>>
OthersIdle == PureIdle /\ StudentsIdle /\ RecIdle

(***************************************************************************)
(* Calls of the pure methods                                               *)
(***************************************************************************)
MaxValidated == 3   \* longest list of arbitrary objectives handed to the validator

\* An objective as a caller may hand it to validate_learning_path: any duration.
AnyObjective(subject, difficulty, duration) ==
    [FillerObjective(subject, Collection[1], 0) EXCEPT
        !.difficulty_level = difficulty, !.estimated_duration = duration]

ValidatedObjectives ==
    {AnyObjective(s, "beginner", d) : s \in {"mathematics", "physics"},
                                      d \in {5, 15, 20, 60, 70}}

\* Every list of up to MaxValidated objectives, and lists longer than
\* max_objectives_per_path.
ValidateCalls ==
    {[fn |-> "validate_learning_path", objectives |-> objs] :
        objs \in UNION {[1..n -> ValidatedObjectives] : n \in 0..MaxValidated}
                  \cup {[i \in 1..(max_objectives_per_path + 1) |-> o] :
                          o \in ValidatedObjectives}}

ValidateLearningPath ==
    /\ call # <<>> /\ ret = <<>>
    /\ call[1].fn = "validate_learning_path"
    /\ ret' = <<validate_learning_path(call[1].objectives)>>
    /\ UNCHANGED <<pIn, pOut, pAll, aIn, aOut, now, path, origin, issued, last, file, loaded,
                   paths_file, got, call, students_file, sres, rec>>

\* Progress records around both pairs of thresholds, with and without the keys.
AnalyzedProgress ==
    [completion_rate : {<<>>, <<10>>, <<29>>, <<30>>, <<50>>, <<80>>, <<81>>},
     average_performance : {<<>>, <<30>>, <<39>>, <<40>>, <<50>>, <<80>>, <<81>>},
     completed_content : {{}}]

AnalyzeCalls ==
    {[fn |-> "_analyze_progress", student_progress |-> p] : p \in AnalyzedProgress}

\* The student_profile adapt_learning_path builds from the analysis for re-planning
\* (generator.py:250-255).
ReplanProfile(student_id, progress_analysis) ==
    [student_id |-> student_id,
     current_level |-> progress_analysis.current_level,
     learning_pace |-> progress_analysis.learning_pace,
     time_availability |-> progress_analysis.time_availability]

\* The first steps of adapt_learning_path: the analysis, and the student_profile
\* built only under the guard progress_analysis['needs_adaptation']
\* (generator.py:242); ret[1] is that profile, <<>> when none is built.
AnalyzeProgress ==
    /\ call # <<>> /\ ret = <<>>
    /\ call[1].fn = "_analyze_progress"
    /\ LET progress_analysis == _analyze_progress(call[1].student_progress)
       IN ret' = <<IF progress_analysis.needs_adaptation
                   THEN <<ReplanProfile("s1", progress_analysis)>>
                   ELSE <<>>,
                  progress_analysis>>
    /\ UNCHANGED <<pIn, pOut, pAll, aIn, aOut, now, path, origin, issued, last, file, loaded,
                   paths_file, got, call, students_file, sres, rec>>

\* target_duration absent, zero, negative, below and above the clamp's range.
CountedTargets == {<<>>, <<0>>, <<-40>>, <<29>>, <<90>>, <<100>>, <<300>>, <<330>>}

CountCalls ==
    {[fn |-> "_determine_objective_count", path_level |-> l, target_duration |-> t] :
        l \in {"beginner", "intermediate", "advanced", "expert"}, t \in CountedTargets}

DetermineObjectiveCount ==
    /\ call # <<>> /\ ret = <<>>
    /\ call[1].fn = "_determine_objective_count"
    /\ ret' = <<_determine_objective_count(call[1].path_level, call[1].target_duration)>>
    /\ UNCHANGED <<pIn, pOut, pAll, aIn, aOut, now, path, origin, issued, last, file, loaded,
                   paths_file, got, call, students_file, sres, rec>>

\* Word counts of the content handed to _estimate_objective_duration: below and
\* above the 15-minute floor of the base, and up to the 60-minute cap.
EstimatedWords == {0, 500, 749, 750, 1000, 1049, 1500, 2000, 2310, 3000, 6000}

EstimateCalls ==
    {[fn |-> "_estimate_objective_duration", words |-> w, difficulty |-> d] :
        w \in EstimatedWords, d \in {"beginner", "intermediate", "advanced", "expert"}}

EstimateObjectiveDuration ==
    /\ call # <<>> /\ ret = <<>>
    /\ call[1].fn = "_estimate_objective_duration"
    /\ ret' = <<_estimate_objective_duration(call[1].words, call[1].difficulty)>>
    /\ UNCHANGED <<pIn, pOut, pAll, aIn, aOut, now, path, origin, issued, last, file, loaded,
                   paths_file, got, call, students_file, sres, rec>>

MaxCandidates == 2   \* longest candidate list handed to the learning-style filter

\* Non-empty lists of different content items, in every order.
CandidateLists ==
    UNION {{c \in [1..n -> Range(PoolItems)] : \A i, j \in 1..n : c[i] = c[j] => i = j} :
             n \in 1..MaxCandidates}

FilterCalls ==
    {[fn |-> "_filter_content_by_learning_style", content |-> c,
      learning_style |-> [primary_style |-> s]] :
        c \in CandidateLists,
        s \in {"visual", "auditory", "kinesthetic", "reading_writing", "unknown", NoKey}}

FilterContentByLearningStyle ==
    /\ call # <<>> /\ ret = <<>>
    /\ call[1].fn = "_filter_content_by_learning_style"
    /\ ret' = <<_filter_content_by_learning_style(call[1].content,
                                                  call[1].learning_style)>>
    /\ UNCHANGED <<pIn, pOut, pAll, aIn, aOut, now, path, origin, issued, last, file,
                   loaded, paths_file, got, call, students_file, sres, rec>>

\* Profiles with every combination of the four signals, each also absent, and a
\* current_level that is no key of the factors dict.
LevelProfiles ==
    {[BareProfile("s1") EXCEPT !.current_level = c, !.average_performance = a,
                               !.learning_pace = p, !.time_availability = t] :
        c \in {NoKey, "beginner", "intermediate", "advanced", "expert"},
        a \in {<<>>, <<60>>, <<61>>, <<80>>, <<81>>},
        p \in {NoKey, "slow", "normal", "fast"},
        t \in {NoKey, "low", "medium", "high"}}

LevelCalls == {[fn |-> "_determine_path_level", student_profile |-> p] : p \in LevelProfiles}

\* factors[current_level] += 2 raises KeyError for a level that is no key.
DeterminePathLevel ==
    /\ call # <<>> /\ ret = <<>>
    /\ call[1].fn = "_determine_path_level"
    /\ ret' = IF Get(call[1].student_profile.current_level, "beginner")
                    \in Range(LevelOrder)
              THEN <<_determine_path_level(call[1].student_profile)>>
              ELSE <<"KeyError">>
    /\ UNCHANGED <<pIn, pOut, pAll, aIn, aOut, now, path, origin, issued, last, file,
                   loaded, paths_file, got, call, students_file, sres, rec>>

PureCalls ==
    ValidateCalls \cup AnalyzeCalls \cup CountCalls \cup EstimateCalls \cup FilterCalls
    \cup LevelCalls

InitPure == /\ call \in {<<c>> : c \in PureCalls}
            /\ ret = <<>>
            /\ PlanIdle /\ AssessIdle /\ GenIdle /\ FileIdle /\ StoreIdle
            /\ StudentsIdle /\ RecIdle

NextPure ==
    \/ ValidateLearningPath
    \/ AnalyzeProgress
    \/ DetermineObjectiveCount
    \/ EstimateObjectiveDuration
    \/ FilterContentByLearningStyle
    \/ DeterminePathLevel

SpecPure == InitPure /\ [][NextPure]_vars

(***************************************************************************)
(* Planner runs: plan_objectives on every pool                             *)
(***************************************************************************)
InitPlan == /\ pIn \in {<<i>> : i \in PlanInputs}
            /\ pOut = <<>> /\ pAll = <<>>
            /\ AssessIdle /\ GenIdle /\ FileIdle /\ StoreIdle /\ OthersIdle

PlanObjectives ==
    /\ pIn # <<>> /\ pOut = <<>>
    /\ \E all \in all_objectives(pIn[1].available_content, pIn[1].learning_style,
                                  pIn[1].path_level, pIn[1].target_duration) :
          /\ pAll' = <<all>>
          /\ pOut' = <<SortedPrefix(all, _determine_objective_count(
                                            pIn[1].path_level, pIn[1].target_duration))>>
    /\ UNCHANGED <<pIn, aIn, aOut, now, path, origin, issued, last, file, loaded,
                   paths_file, got, call, ret, students_file, sres, rec>>

NextPlan == PlanObjectives

SpecPlan == InitPlan /\ [][NextPlan]_vars

(***************************************************************************)
(* The planner on the specification's concrete scenario: an intermediate   *)
(* profile, ten intermediate mathematics and ten intermediate physics      *)
(* items, target_duration = 120                                            *)
(***************************************************************************)
ScenarioProfile ==
    [BareProfile("s1") EXCEPT !.current_level = "intermediate",
                              !.learning_pace = "normal",
                              !.time_availability = "medium",
                              !.average_performance = <<70>>]

ScenarioIds ==
    [mathematics |-> <<"a1", "a2", "a3", "a4", "a5", "a6", "a7", "a8", "a9", "a10">>,
     physics |-> <<"b1", "b2", "b3", "b4", "b5", "b6", "b7", "b8", "b9", "b10">>]

\* Word counts of the i-th item of a subject: all short, all medium, all long, or
\* growing with i.
ScenarioWords ==
    {[i \in 1..10 |-> 400], [i \in 1..10 |-> 1500], [i \in 1..10 |-> 3000],
     [i \in 1..10 |-> 6000], [i \in 1..10 |-> 500 * i]}

ScenarioPool(words) ==
    [i \in 1..10 |-> Item(ScenarioIds.mathematics[i], "mathematics", "intermediate",
                          "lesson", words[i])]
    \o [i \in 1..10 |-> Item(ScenarioIds.physics[i], "physics", "intermediate",
                             "lesson", words[11 - i])]

ScenarioInputs ==
    {[available_content |-> ScenarioPool(words),
      learning_style |-> [primary_style |->
                            assess_learning_style(ScenarioProfile).primary_style],
      path_level |-> _determine_path_level(ScenarioProfile),
      target_duration |-> <<120>>] : words \in ScenarioWords}

InitScenario == /\ pIn \in {<<i>> : i \in ScenarioInputs}
                /\ pOut = <<>> /\ pAll = <<>>
                /\ AssessIdle /\ GenIdle /\ FileIdle /\ StoreIdle /\ OthersIdle

SpecScenario == InitScenario /\ [][NextPlan]_vars

(***************************************************************************)
(* Assessor runs: assess_learning_style on every profile                   *)
(***************************************************************************)
MaxAnswers == 2   \* most answers in a learning_style_assessment

Responses == Styles \cup {"other"}

Assessments ==
    {<<>>} \cup {<<r>> : r \in UNION {[1..n -> Responses] : n \in 0..MaxAnswers}}

AssessProfiles ==
    {[BareProfile("s1") EXCEPT
        !.learning_style_assessment = quiz,
        !.content_preferences = [NoPrefs EXCEPT !["videos"] = v, !["podcasts"] = a,
                                                !["reading"] = r],
        !.learning_behavior = [NoBehavior EXCEPT !["time_on_videos"] = tv,
                                                 !["time_on_text"] = tt],
        !.performance_patterns = [NoPatterns EXCEPT !["hands_on_tasks"] = ph,
                                                    !["text_tasks"] = pt]] :
        quiz \in Assessments, v \in {0, 2}, a \in {0, 1}, r \in {-1, 0, 3},
        tv \in {0, 45}, tt \in {0, 30, 60}, ph \in {0, 90}, pt \in {0, 70}}

InitAssess == /\ aIn \in {<<p>> : p \in AssessProfiles}
              /\ aOut = <<>>
              /\ PlanIdle /\ GenIdle /\ FileIdle /\ StoreIdle /\ OthersIdle

AssessLearningStyle ==
    /\ aIn # <<>> /\ aOut = <<>>
    /\ aOut' = <<assess_learning_style(aIn[1])>>
    /\ UNCHANGED <<pIn, pOut, pAll, aIn, now, path, origin, issued, last, file, loaded,
                   paths_file, got, call, ret, students_file, sres, rec>>

NextAssess == AssessLearningStyle

SpecAssess == InitAssess /\ [][NextAssess]_vars

(***************************************************************************)
(* Generator runs: generate_learning_path, adapt_learning_path and the     *)
(* clock                                                                   *)
(***************************************************************************)
Tick ==
    /\ \E t \in Times : /\ TimeLE(now, t) /\ t # now
                        /\ now' = t
    /\ UNCHANGED <<pIn, pOut, pAll, aIn, aOut, path, origin, issued, last, file, loaded,
                   paths_file, got, call, ret, students_file, sres, rec>>

GenerateLearningPath ==
    /\ Len(issued) < MaxGen
    /\ \E student_profile \in Profiles, subjects \in SubjectLists,
          target_duration \in Targets :
       \E failing \in SUBSET Range(subjects) :
          LET learning_style == assess_learning_style(student_profile)
              path_level == _determine_path_level(student_profile)
              available_content ==
                  _get_available_content(subjects, student_profile.completed_content,
                                         failing)
          IN \E objectives \in plan_objectives(available_content, learning_style,
                                               path_level, target_duration) :
             \E order \in Perms(ObjectiveSubjects(objectives)), t2, t3 \in Times :
                /\ TimeLE(now, t2) /\ TimeLE(t2, t3)
                /\ LET new == _create_learning_path(student_profile.student_id,
                                  objectives, learning_style, path_level, order,
                                  now, t2, t3)
                   IN /\ path' = <<new>>
                      /\ origin' = <<[path_id |-> new.path_id,
                                      student_id |-> new.student_id,
                                      created_at |-> new.created_at]>>
                      /\ issued' = Append(issued, new.path_id)
                /\ now' = t3
                /\ last' = [NoLast EXCEPT !.op = "generate",
                                          !.queries = Len(subjects),
                                          !.completed = student_profile.completed_content,
                                          !.failing = failing,
                                          !.style = <<learning_style.primary_style,
                                                      learning_style.secondary_style>>]
    /\ UNCHANGED <<pIn, pOut, pAll, aIn, aOut, file, loaded, paths_file, got, call, ret, students_file, sres, rec>>

AdaptLearningPath ==
    /\ path # <<>>
    /\ \E student_progress \in ProgressRecords :
          LET learning_path == path[1]
              progress_analysis == _analyze_progress(student_progress)
          IN IF progress_analysis.needs_adaptation
             THEN \E failing \in SUBSET Range(learning_path.subjects), t \in Times :
                    LET available_content ==
                            _get_available_content(learning_path.subjects,
                                student_progress.completed_content, failing)
                        student_profile == AdaptProfile(learning_path.student_id,
                                                        progress_analysis)
                        learning_style == assess_learning_style(student_profile)
                        target_duration == <<learning_path.estimated_total_duration>>
                    IN \E new_objectives \in
                            plan_objectives(available_content, learning_style,
                                            progress_analysis.path_level,
                                            target_duration) :
                          /\ TimeLE(now, t)
                          /\ path' = <<AdaptedPath(learning_path, new_objectives, t)>>
                          /\ now' = t
                          /\ last' = [op |-> "adapt", triggered |-> TRUE,
                                      band |-> InBand(student_progress),
                                      queries |-> Len(learning_path.subjects),
                                      target |-> target_duration,
                                      completed |-> student_progress.completed_content,
                                      failing |-> failing,
                                      style |-> <<learning_style.primary_style,
                                                  learning_style.secondary_style>>]
             ELSE /\ path' = path
                  /\ now' = now
                  /\ last' = [last EXCEPT !.op = "adapt", !.triggered = FALSE,
                                          !.band = InBand(student_progress),
                                          !.queries = 0]
    /\ UNCHANGED <<pIn, pOut, pAll, aIn, aOut, origin, issued, file, loaded, paths_file, got, call, ret, students_file, sres, rec>>

Init == /\ PlanIdle /\ AssessIdle /\ FileIdle /\ StoreIdle /\ OthersIdle
        /\ now \in Times /\ path = <<>> /\ origin = <<>> /\ issued = <<>>
        /\ last = NoLast

\* One path's life: it is generated once and then adapted any number of times.
Next == Tick \/ (path = <<>> /\ GenerateLearningPath) \/ AdaptLearningPath

Spec == Init /\ [][Next]_vars

\* Successive generate_learning_path calls (as in the recommendation helper's loop).
NextIds == Tick \/ GenerateLearningPath

SpecIds == Init /\ [][NextIds]_vars

(***************************************************************************)
(* get_learning_path_recommendations (generator.py:317-373)                *)
(***************************************************************************)
MaxRecs == 2   \* largest n_recommendations

\* The subjects VectorStore.get_statistics counts, in the order met; a failing
\* collection query is caught there and answered with {} (store.py:338-376).
get_statistics(fails) ==
    IF fails THEN <<>>
    ELSE GroupSubjects([i \in DOMAIN Collection |->
                          [Collection[i] EXCEPT !.subject = Get(@, "unknown")]])

\* list(stats.get('subjects', {}).keys())
_get_available_subjects(fails) == get_statistics(fails)

\* Whether generate_learning_path raises: an unknown current_level is no key of
\* factors (generator.py:136), a completed_content of None cannot be searched
\* once there is content to filter (generator.py:181-184), and a profile without
\* student_id has no key to read (generator.py:118).
GenerateRaises(student_profile, completed_is_none, subjects, failing) ==
    \/ Get(student_profile.current_level, "beginner") \notin Range(LevelOrder)
    \/ completed_is_none /\ _get_available_content(subjects, {}, failing) # <<>>
    \/ student_profile.student_id = NoKey

\* The summary dict built from a generated path (generator.py:348-356).
Recommendation(p) ==
    [path_id |-> p.path_id,
     title |-> p.title,
     description |-> p.description,
     subjects |-> p.subjects,
     estimated_duration |-> p.estimated_total_duration,
     difficulty_level |-> p.difficulty_progression[1],
     objectives_count |-> Len(p.objectives)]

\* The loop body with an exception leaving the method: nothing is returned
AfterSampleAbort(r, outcome) ==
    IF outcome = <<>>
    THEN [r EXCEPT !.i = r.n_recommendations, !.recommendations = <<>>, !.raised = TRUE,
                   !.log = Append(@, outcome)]
    ELSE [r EXCEPT !.i = @ + 1,
                   !.recommendations = Append(@, Recommendation(outcome[1])),
                   !.log = Append(@, outcome)]

\* One pass of the loop (generator.py:336-362): `outcome` is <<path>> when
\* generate_learning_path returned and <<>> when it raised; the except clause
\* logs and continues.
AfterSample(r, outcome) ==
    IF outcome = <<>>
    THEN [r EXCEPT !.i = @ + 1, !.log = Append(@, outcome)]
    ELSE [r EXCEPT !.i = @ + 1,
                   !.recommendations = Append(@, Recommendation(outcome[1])),
                   !.log = Append(@, outcome)]

RecProfiles ==
    {BareProfile("s1"),
     [BareProfile("s1") EXCEPT !.current_level = "expert"],
     BareProfile(NoKey)}

RecCalls ==
    [student_profile : RecProfiles,
     completed_is_none : BOOLEAN,
     n_recommendations : 0..MaxRecs,
     stats_fail : BOOLEAN,
     i : {0},
     recommendations : {<<>>},
     log : {<<>>},
     raised : {FALSE}]

\* One sample of a get_learning_path_recommendations call in progress.
RecommendSample ==
    /\ rec # <<>>
    /\ rec[1].i < rec[1].n_recommendations
    /\ LET student_profile == rec[1].student_profile
           available_subjects == _get_available_subjects(rec[1].stats_fail)
       IN \E selected_subjects \in
                Arrangements(available_subjects, Min(3, Len(available_subjects))) :
          \E failing \in SUBSET Range(selected_subjects) :
             IF GenerateRaises(student_profile, rec[1].completed_is_none,
                               selected_subjects, failing)
             THEN /\ rec' = <<AfterSample(rec[1], <<>>)>>
                  /\ now' = now
             ELSE LET learning_style == assess_learning_style(student_profile)
                      path_level == _determine_path_level(student_profile)
                      available_content ==
                          _get_available_content(selected_subjects,
                              student_profile.completed_content, failing)
                  IN \E objectives \in plan_objectives(available_content,
                                            learning_style, path_level, <<>>) :
                     \E order \in Perms(ObjectiveSubjects(objectives)),
                        t2, t3 \in Times :
                        /\ TimeLE(now, t2) /\ TimeLE(t2, t3)
                        /\ rec' = <<AfterSample(rec[1],
                                     <<_create_learning_path(student_profile.student_id,
                                           objectives, learning_style, path_level,
                                           order, now, t2, t3)>>)>>
                        /\ now' = t3
    /\ UNCHANGED <<pIn, pOut, pAll, aIn, aOut, path, origin, issued, last, file, loaded,
                   paths_file, got, call, ret, students_file, sres>>

InitRec == /\ rec \in {<<c>> : c \in RecCalls}
           /\ PlanIdle /\ AssessIdle /\ GenIdle /\ FileIdle /\ StoreIdle
           /\ PureIdle /\ StudentsIdle

NextRec == Tick \/ RecommendSample

SpecRec == InitRec /\ [][NextRec]_vars

(***************************************************************************)
(* save_learning_path / load_learning_path (generator.py:375-453)          *)
(***************************************************************************)
ObjectiveData(obj) ==
    [id |-> obj.id, title |-> obj.title, description |-> obj.description,
     subject |-> obj.subject,
     difficulty_level |-> obj.difficulty_level, prerequisites |-> obj.prerequisites,
     estimated_duration |-> obj.estimated_duration, content_ids |-> obj.content_ids]

\* The dict save_learning_path dumps as JSON.
path_data(learning_path) ==
    [student_id |-> learning_path.student_id,
     path_id |-> learning_path.path_id,
     title |-> learning_path.title,
     description |-> learning_path.description,
     objectives |-> [i \in DOMAIN learning_path.objectives |->
                        ObjectiveData(learning_path.objectives[i])],
     estimated_total_duration |-> learning_path.estimated_total_duration,
     difficulty_progression |-> learning_path.difficulty_progression,
     subjects |-> learning_path.subjects,
     created_at |-> isoformat(learning_path.created_at),
     updated_at |-> isoformat(learning_path.updated_at),
     status |-> learning_path.status]

ObjectiveFromData(obj_data) ==
    [id |-> obj_data.id, title |-> obj_data.title,
     description |-> obj_data.description, subject |-> obj_data.subject,
     difficulty_level |-> obj_data.difficulty_level,
     prerequisites |-> obj_data.prerequisites,
     estimated_duration |-> obj_data.estimated_duration,
     content_ids |-> obj_data.content_ids]

\* The LearningPath load_learning_path rebuilds from the parsed JSON.
PathFromData(data) ==
    [student_id |-> data.student_id,
     path_id |-> data.path_id,
     title |-> data.title,
     description |-> data.description,
     objectives |-> [i \in DOMAIN data.objectives |-> ObjectiveFromData(data.objectives[i])],
     estimated_total_duration |-> data.estimated_total_duration,
     difficulty_progression |-> data.difficulty_progression,
     subjects |-> data.subjects,
     created_at |-> fromisoformat(data.created_at),
     updated_at |-> fromisoformat(data.updated_at),
     status |-> data.status]

\* What the file holds when json.dump raised after open() had truncated it:
\* text that json.load rejects.
PartialJson == [unparsable |-> TRUE]

\* The whole body of save_learning_path is inside one try whose except clause only
\* logs (generator.py:407-408): the method returns None whether or not the file
\* was written. open() may raise (missing directory, no permission): nothing is
\* written and an earlier file stays as it was. json.dump may raise after open()
\* emptied the file: what is left does not parse.
SaveLearningPath ==
    /\ path # <<>>
    /\ \E outcome \in {"written", "open raised", "dump raised"} :
          file' = CASE outcome = "written" -> <<path_data(path[1])>>
                    [] outcome = "open raised" -> file
                    [] outcome = "dump raised" -> <<PartialJson>>
    /\ loaded' = <<>>
    /\ UNCHANGED <<pIn, pOut, pAll, aIn, aOut, now, path, origin, issued, last, paths_file, got, call, ret, students_file, sres, rec>>

\* load_learning_path re-raises (generator.py:451-453) when the file is missing
\* (FileNotFoundError) or does not parse (JSONDecodeError): no path is returned.
LoadLearningPath ==
    /\ loaded' = IF file = <<>> \/ file[1] = PartialJson
                 THEN <<>>
                 ELSE <<PathFromData(file[1])>>
    /\ UNCHANGED <<pIn, pOut, pAll, aIn, aOut, now, path, origin, issued, last, file,
                   paths_file, got, call, ret, students_file, sres, rec>>

NextFile == Tick \/ (path = <<>> /\ GenerateLearningPath) \/ SaveLearningPath
            \/ LoadLearningPath

SpecFile == Init /\ [][NextFile]_vars

(***************************************************************************)
(* StudentManager's path store (manager.py): learning_paths.json           *)
(***************************************************************************)
MaxStored == 3   \* most records in learning_paths.json

\* The dict add_learning_path appends to the stored list (manager.py:189-213).
stored_path_data(learning_path) ==
    [student_id |-> learning_path.student_id,
     path_id |-> learning_path.path_id,
     title |-> learning_path.title,
     description |-> learning_path.description,
     objectives |-> [i \in DOMAIN learning_path.objectives |->
                        ObjectiveData(learning_path.objectives[i])],
     estimated_total_duration |-> learning_path.estimated_total_duration,
     difficulty_progression |-> learning_path.difficulty_progression,
     subjects |-> learning_path.subjects,
     created_at |-> isoformat(learning_path.created_at),
     updated_at |-> isoformat(learning_path.updated_at),
     status |-> learning_path.status]

PathKeys == {"student_id", "path_id", "title", "description", "objectives",
             "estimated_total_duration", "difficulty_progression", "subjects",
             "created_at", "updated_at", "status"}

\* Whether the reconstruction of one record (manager.py:254-284) raises nothing:
\* every key it subscripts is there and both timestamps parse.
Reconstructs(record) ==
    /\ PathKeys \subseteq DOMAIN record
    /\ IsIsoFormat(record.created_at)
    /\ IsIsoFormat(record.updated_at)

\* One try/except spans the whole loop: any record that raises makes the
\* method return [].
get_all_learning_paths(paths_data) ==
    IF \A i \in DOMAIN paths_data : Reconstructs(paths_data[i])
    THEN [i \in DOMAIN paths_data |-> PathFromData(paths_data[i])]
    ELSE <<>>

\* Paths handed to add_learning_path.
SamplePaths ==
    {_create_learning_path(id, objectives, [primary_style |-> "visual"], "beginner",
                           IF objectives = <<>> THEN <<>> ELSE <<"mathematics">>,
                           [sec |-> 0, usec |-> 0], [sec |-> 0, usec |-> 0],
                           [sec |-> 0, usec |-> 1]) :
        id \in Students,
        objectives \in {<<>>, <<FillerObjective("mathematics", Collection[1], 0)>>}}

AddLearningPath ==
    /\ Len(paths_file) < MaxStored
    /\ \E learning_path \in SamplePaths :
          paths_file' = Append(paths_file, stored_path_data(learning_path))
    /\ got' = <<>>
    /\ UNCHANGED <<pIn, pOut, pAll, aIn, aOut, now, path, origin, issued, last, file, loaded, call, ret, students_file, sres, rec>>

\* learning_paths.json edited outside the program: one record loses a key or
\* gets a timestamp that is no ISO-8601 string.
DamageRecord ==
    /\ \E i \in DOMAIN paths_file :
          /\ Reconstructs(paths_file[i])
          /\ \/ paths_file' = [paths_file EXCEPT ![i] =
                                 [k \in DOMAIN @ \ {"objectives"} |-> @[k]]]
             \/ paths_file' = [paths_file EXCEPT ![i].created_at = <<>>]
    /\ got' = <<>>
    /\ UNCHANGED <<pIn, pOut, pAll, aIn, aOut, now, path, origin, issued, last, file, loaded, call, ret, students_file, sres, rec>>

GetAllLearningPaths ==
    /\ got' = <<get_all_learning_paths(paths_file)>>
    /\ UNCHANGED <<pIn, pOut, pAll, aIn, aOut, now, path, origin, issued, last, file, loaded,
                   paths_file, call, ret, students_file, sres, rec>>

\* update_learning_path_status(path_id, status) on the stored list `paths`
\* (manager.py:292-320); t is the reading of datetime.now().  The first record
\* with the path_id gets the status and updated_at = now, the list is saved and
\* the answer is True; with no such record nothing is saved and it is False.
update_learning_path_status(paths, path_id, status, t) ==
    LET hits == {i \in DOMAIN paths : paths[i].path_id = path_id}
    IN IF hits = {} THEN [ret |-> FALSE, paths |-> paths]
       ELSE LET i == CHOOSE k \in hits : \A j \in hits : k <= j
            IN [ret |-> TRUE,
                paths |-> [paths EXCEPT ![i].status = status,
                                        ![i].updated_at = isoformat(t)]]

\* The path_ids handed to update_learning_path_status: those of the stored
\* paths and one no stored path has (a path of a third student).
StatusPathIds == {learning_path.path_id : learning_path \in SamplePaths}
                     \cup {<<"s3", strftime_seconds([sec |-> 0, usec |-> 0])>>}

\* The statuses handed to it: any string is taken.
StatusValues == {"completed", "paused"}

UpdateLearningPathStatus ==
    /\ \E path_id \in StatusPathIds, status \in StatusValues, t \in Times :
          LET r == update_learning_path_status(paths_file, path_id, status, t)
          IN /\ TimeLE(now, t)
             /\ IF r.ret THEN now' = t ELSE now' = now /\ t = now
             /\ paths_file' = r.paths
             /\ sres' = <<[op |-> "update_learning_path_status",
                           arg |-> <<path_id, status>>,
                           ret |-> r.ret, before |-> students_file]>>
    /\ got' = <<>>
    /\ UNCHANGED <<pIn, pOut, pAll, aIn, aOut, path, origin, issued, last, file, loaded,
                   call, ret, students_file, rec>>

(***************************************************************************)
(* StudentManager's student store (manager.py): students.json              *)
(***************************************************************************)
\* _load_students / get_all_students: the list the file holds.
get_all_students(students) == students

\* add_student without the check for a stored student_id
add_student_unchecked(students, student_data, t1, t2) ==
    [ret |-> TRUE,
     students |-> Append(students, [student_data EXCEPT !.created_at = isoformat(t1),
                                                        !.updated_at = isoformat(t2)])]

\* add_student(student_data) on the stored list `students`; t1 and t2 are the two
\* readings of datetime.now().  Subscripting a student_data without student_id
\* raises inside any(...) as soon as there is a stored student to compare with,
\* and otherwise in the log line that follows the save; the except clause
\* answers False both times, in the second case with the student stored.
add_student(students, student_data, t1, t2) ==
    IF students # <<>> /\ student_data.student_id = NoKey
    THEN [ret |-> FALSE, students |-> students]
    ELSE IF \E i \in DOMAIN students : students[i].student_id = student_data.student_id
    THEN [ret |-> FALSE, students |-> students]
    ELSE [ret |-> student_data.student_id # NoKey,
          students |-> Append(students,
                              [student_data EXCEPT !.created_at = isoformat(t1),
                                                   !.updated_at = isoformat(t2)])]

\* student_data handed to add_student: created_at / updated_at are set by it.
StudentData ==
    [student_id : Students \cup {NoKey}, name : {"Ann", "Bob"},
     created_at : {<<>>}, updated_at : {<<>>}]

MaxStudents == 3   \* add_student is called while students.json holds fewer records

\* dict.update(updates) on a stored student: the keys of `updates` that are
\* present overwrite the student's.
Updated(student, updates) ==
    [student EXCEPT !.student_id = Get(updates.student_id, @),
                    !.name = Get(updates.name, @)]

\* update_student(student_id, updates) on the stored list; t is the reading of
\* datetime.now().  The first student with the id is updated.
update_student(students, student_id, updates, t) ==
    LET hits == {i \in DOMAIN students : students[i].student_id = student_id}
    IN IF hits = {} THEN [ret |-> FALSE, students |-> students]
       ELSE LET i == CHOOSE k \in hits : \A j \in hits : k <= j
            IN [ret |-> TRUE,
                students |-> [students EXCEPT
                                ![i] = [Updated(students[i], updates) EXCEPT
                                          !.updated_at = isoformat(t)]]]

\* delete_student(student_id): the students that are kept.
delete_student(students, student_id) ==
    SelectSeq(students, LAMBDA s : s.student_id # student_id)

\* _remove_student_data(student_id): the learning paths that are kept.
_remove_student_data(paths, student_id) ==
    SelectSeq(paths, LAMBDA p : p.student_id # student_id)

\* The updates handed to update_student: any of the student's keys.
StudentUpdates == [student_id : Students \cup {NoKey}, name : {"Bob", NoKey}]

UpdateStudent ==
    /\ \E student_id \in Students, updates \in StudentUpdates, t \in Times :
          LET r == update_student(students_file, student_id, updates, t)
          IN /\ TimeLE(now, t)
             /\ IF r.ret THEN now' = t ELSE now' = now /\ t = now
             /\ students_file' = r.students
             /\ sres' = <<[op |-> "update_student", arg |-> <<student_id, updates>>,
                           ret |-> r.ret, before |-> students_file]>>
    /\ UNCHANGED <<pIn, pOut, pAll, aIn, aOut, path, origin, issued, last, file, loaded,
                   paths_file, got, call, ret, rec>>

DeleteStudent ==
    /\ \E student_id \in Students :
          /\ students_file' = delete_student(students_file, student_id)
          /\ paths_file' = _remove_student_data(paths_file, student_id)
          /\ sres' = <<[op |-> "delete_student", arg |-> <<student_id>>,
                        ret |-> TRUE, before |-> students_file]>>
    /\ got' = <<>>
    /\ UNCHANGED <<pIn, pOut, pAll, aIn, aOut, now, path, origin, issued, last, file,
                   loaded, call, ret, rec>>

AddStudent ==
    /\ Len(students_file) < MaxStudents
    /\ \E student_data \in StudentData, t1, t2 \in Times :
          LET r == add_student(students_file, student_data, t1, t2)
          IN /\ TimeLE(now, t1) /\ TimeLE(t1, t2)
             /\ IF r.students # students_file THEN now' = t2
                ELSE now' = now /\ t1 = now /\ t2 = now
             /\ students_file' = r.students
             /\ sres' = <<[op |-> "add_student", arg |-> <<student_data>>,
                           ret |-> r.ret, before |-> students_file]>>
    /\ UNCHANGED <<pIn, pOut, pAll, aIn, aOut, path, origin, issued, last, file, loaded,
                   paths_file, got, call, ret, rec>>

GetAllStudents ==
    /\ sres' = <<[op |-> "get_all_students", arg |-> <<>>,
                  ret |-> get_all_students(students_file), before |-> students_file]>>
    /\ UNCHANGED <<pIn, pOut, pAll, aIn, aOut, now, path, origin, issued, last, file, loaded,
                   paths_file, got, call, ret, students_file, rec>>

InitStudents == /\ PlanIdle /\ AssessIdle /\ GenIdle /\ FileIdle /\ StoreIdle
                /\ PureIdle /\ StudentsIdle /\ RecIdle

NextStudents == Tick \/ AddStudent \/ UpdateStudent \/ DeleteStudent \/ GetAllStudents

SpecStudents == InitStudents /\ [][NextStudents]_vars

\* The path store's runs: learning_paths.json under every method that touches it.
InitStore == PlanIdle /\ AssessIdle /\ GenIdle /\ FileIdle /\ StoreIdle /\ OthersIdle

\* Every StudentManager method that writes learning_paths.json, the edit from
\* outside, and the read.
NextStore == AddLearningPath \/ UpdateLearningPathStatus \/ DeleteStudent
             \/ DamageRecord \/ GetAllLearningPaths

SpecStore == InitStore /\ [][NextStore]_vars

(***************************************************************************)
(* Properties                                                              *)
(***************************************************************************)
ValidLevels == {"beginner", "intermediate", "advanced"}

\* C1: for a non-empty pool and a path_level in {beginner, intermediate, advanced},
\* plan_objectives returns a list of length L with
\* min(3, number of items in the pool) <= L <= max_objectives_per_path.
C1_LengthWithinBounds ==
    (pOut # <<>> /\ pIn[1].available_content # <<>> /\ pIn[1].path_level \in ValidLevels)
    => /\ Min(3, Len(pIn[1].available_content)) <= Len(pOut[1])
       /\ Len(pOut[1]) <= max_objectives_per_path

IsFiller(objective) == objective.id[2] = "additional"

\* C2: every objective plan_objectives returns, built from a content item or
\* synthesized as a filler, has an estimated_duration in [15, 60].
C2_DurationClamped ==
    pOut # <<>> =>
        \A o \in Range(pOut[1]) : /\ o.estimated_duration >= 15
                                  /\ o.estimated_duration <= 60

\* A returned plan holding a filler, an objective clamped up to 15 and one clamped
\* down to 60.
C2_Witness ==
    /\ pOut # <<>>
    /\ \E f, lo, hi \in Range(pOut[1]) :
          /\ IsFiller(f)
          /\ ~IsFiller(lo) /\ lo.estimated_duration = 15
          /\ ~IsFiller(hi) /\ hi.estimated_duration = 60

\* C3: after generate_learning_path and any sequence of adapt_learning_path calls,
\* estimated_total_duration is the sum of the objectives' estimated_duration.
C3_TotalIsLiveSum ==
    path # <<>> =>
        path[1].estimated_total_duration = TotalDuration(path[1].objectives)

\* A triggered adaptation has changed the path's total duration.
C3_Witness ==
    /\ path # <<>> /\ last.op = "adapt" /\ last.triggered
    /\ path[1].objectives # <<>>
    /\ path[1].estimated_total_duration # last.target[1]

\* C4: an adapt_learning_path call with completion_rate in (0.3, 0.8] and
\* average_performance in (0.4, 0.8] leaves the path as it was (objectives, total
\* duration, updated_at) and makes no retrieval query, however often it is applied.
C4_BandIsNoOp ==
    [][(last'.op = "adapt" /\ last'.band) => (path' = path /\ last'.queries = 0)]_vars

\* An in-band adapt call has run on a path that an earlier call had adapted.
C4_Witness ==
    /\ path # <<>> /\ last.op = "adapt" /\ last.band
    /\ path[1].objectives # <<>>
    /\ path[1].updated_at # origin[1].created_at

\* C5: adapt_learning_path never changes path_id, student_id or created_at.
C5_IdentityKept ==
    path # <<>> => /\ path[1].path_id = origin[1].path_id
                   /\ path[1].student_id = origin[1].student_id
                   /\ path[1].created_at = origin[1].created_at

\* A triggered adaptation has run, later than the path's creation.
C5_Witness ==
    /\ path # <<>> /\ last.op = "adapt" /\ last.triggered
    /\ path[1].updated_at # path[1].created_at
    /\ path[1].objectives # <<>>

\* C6: every re-planning of one path is given the same target_duration as the
\* re-planning before it.
C6_SameTargetEveryReplanning ==
    [][(last.target # <<>> /\ last'.op = "adapt" /\ last'.triggered)
          => last'.target = last.target]_vars

\* C7: any two generate_learning_path calls return different path_ids.
C7_PathIdsUnique ==
    \A i, j \in DOMAIN issued : i # j => issued[i] # issued[j]

\* C8: load_learning_path of the file save_learning_path wrote yields the saved
\* path, field for field, the datetimes included (a save that wrote nothing
\* readable leaves load_learning_path raising, with no path to compare).
C8_RoundTrip ==
    (file # <<>> /\ loaded # <<>>) => loaded[1] = path[1]

\* A path with objectives, one timestamp on a whole second and one not, was saved
\* and loaded.
C8_Witness ==
    /\ file # <<>> /\ loaded # <<>>
    /\ loaded[1].objectives # <<>>
    /\ loaded[1].created_at.usec = 0
    /\ loaded[1].updated_at.usec # 0

\* C9: loading the stored collection returns every well-formed record, also when
\* another record is malformed.
C9_WellFormedRecordsLoaded ==
    got # <<>> =>
        \A i \in DOMAIN paths_file :
            Reconstructs(paths_file[i]) => PathFromData(paths_file[i]) \in Range(got[1])

\* C10: the four per-style scores assess_learning_style returns sum to at least 1,
\* with quiz answers or by inference.
C10_ScoresSumAtLeastOne ==
    aOut # <<>> => TotalScore(aOut[1].scores) >= 1

\* C11: for an empty available_content, plan_objectives returns the empty list and
\* nothing else (it does not raise), whatever the path_level, learning style and
\* target_duration.
C11_EmptyPoolEmptyPlan ==
    (pIn # <<>> /\ pIn[1].available_content = <<>>)
    => /\ plan_objectives(pIn[1].available_content, pIn[1].learning_style,
                          pIn[1].path_level, pIn[1].target_duration) = {<<>>}
       /\ (pOut # <<>> => pOut[1] = <<>>)

\* plan_objectives has returned for an empty pool, a level outside the known three
\* and a target duration.
C11_Witness ==
    /\ pOut = <<<<>>>>
    /\ pIn[1].available_content = <<>>
    /\ pIn[1].path_level = "expert"
    /\ HasTarget(pIn[1].target_duration)

\* C12: validate_learning_path returns is_valid = FALSE exactly when the list has
\* fewer than 3 objectives, the empty list giving the one issue "No objectives
\* defined"; in a non-empty list an objective duration outside [15, 60], coverage of
\* a single subject and a total under 30 minutes each add a warning, and no warning
\* makes the result invalid.
C12_InvalidOnlyWhenTooFew ==
    (call # <<>> /\ call[1].fn = "validate_learning_path" /\ ret # <<>>) =>
        LET objectives == call[1].objectives
            v == ret[1]
        IN /\ v.is_valid = ~(Len(objectives) < 3)
           /\ (objectives = <<>> => v.issues = <<<<"No objectives defined">>>>)
           /\ (v.issues = <<>>) = v.is_valid
           /\ objectives # <<>> =>
                 /\ \A i \in DOMAIN objectives :
                       (\/ objectives[i].estimated_duration < 15
                        \/ objectives[i].estimated_duration > 60)
                       => \E w \in Range(v.warnings) : Len(w) = 3 /\ w[2] = i
                 /\ (\A i, j \in DOMAIN objectives :
                        objectives[i].subject = objectives[j].subject)
                    => <<"Path covers only one subject">> \in Range(v.warnings)
                 /\ TotalDuration(objectives) < 30
                    => <<"Total duration is very short">> \in Range(v.warnings)

\* A list of three objectives was found valid although it drew the warnings for a
\* short duration, a short total and single-subject coverage.
C12_Witness ==
    /\ call # <<>> /\ call[1].fn = "validate_learning_path" /\ ret # <<>>
    /\ ret[1].is_valid
    /\ Len(call[1].objectives) = 3
    /\ <<"Path covers only one subject">> \in Range(ret[1].warnings)
    /\ <<"Total duration is very short">> \in Range(ret[1].warnings)
    /\ Len(ret[1].warnings) = 5

\* C13: no objective of a generated path references a content id of the profile's
\* completed_content, and no objective of a path after a triggered adaptation
\* references a content id of the progress record's completed_content.
C13_CompletedContentExcluded ==
    path # <<>> =>
        \A o \in Range(path[1].objectives) :
            \A c \in Range(o.content_ids) : c \notin last.completed

\* A triggered adaptation whose progress record lists m2 as completed has planned
\* mathematics objectives.
C13_Witness ==
    /\ path # <<>> /\ last.op = "adapt" /\ last.triggered
    /\ last.completed = {"m2"}
    /\ \E o \in Range(path[1].objectives) :
          o.subject = "mathematics" /\ o.difficulty_level = "beginner"

\* The summaries of the samples that succeeded, in sample order.
RECURSIVE SummariesOf(_)
SummariesOf(log) ==
    IF log = <<>> THEN <<>>
    ELSE (IF Head(log) = <<>> THEN <<>> ELSE <<Recommendation(Head(log)[1])>>)
         \o SummariesOf(Tail(log))

RaisedIn(log) == Cardinality({j \in DOMAIN log : log[j] = <<>>})

\* C14: a finished get_learning_path_recommendations(profile, n) call in which k
\* samples raised has raised nothing itself and returns exactly the n-k summaries
\* of the samples that succeeded, in sample order.
C14_FailedSamplesSkipped ==
    (rec # <<>> /\ rec[1].i = rec[1].n_recommendations) =>
        /\ ~rec[1].raised
        /\ Len(rec[1].log) = rec[1].n_recommendations
        /\ rec[1].recommendations = SummariesOf(rec[1].log)
        /\ Len(rec[1].recommendations)
             = rec[1].n_recommendations - RaisedIn(rec[1].log)

\* A finished call of two samples whose first sample raised and whose second
\* succeeded.
C14_Witness ==
    /\ rec # <<>> /\ rec[1].i = 2 /\ rec[1].n_recommendations = 2
    /\ rec[1].log[1] = <<>>
    /\ rec[1].log[2] # <<>>
    /\ Len(rec[1].recommendations) = 1

\* C15: when a metadata query of the retrieval collaborator fails during
\* generate_learning_path, the failure reaches the caller and no path is returned.
C15_RetrievalFailurePropagates ==
    (last.op = "generate" /\ last.failing # {}) => path = <<>>

\* C16: in the concrete scenario (target_duration = 120) the total estimated
\* duration of the planned objectives is at most target_duration + 60 = 180
\* minutes, whatever the word counts of the items.
C16_TotalWithinTargetPlusSlack ==
    pOut # <<>> => TotalDuration(pOut[1]) <= pIn[1].target_duration[1] + 60

\* C17: add_student with a student_id that is already stored returns False and
\* leaves the stored list as it was; with a student_id not yet stored it returns
\* True and get_all_students then returns the student.
C17_DuplicateStudentRejected ==
    (sres # <<>> /\ sres[1].op = "add_student"
     /\ sres[1].arg[1].student_id # NoKey) =>
        LET student_data == sres[1].arg[1]
            before == sres[1].before
            stored == \E i \in DOMAIN before :
                         before[i].student_id = student_data.student_id
        IN IF stored
           THEN sres[1].ret = FALSE /\ students_file = before
           ELSE /\ sres[1].ret = TRUE
                /\ \E s \in Range(get_all_students(students_file)) :
                      s.student_id = student_data.student_id /\ s.name = student_data.name
                /\ Len(students_file) = Len(before) + 1

\* add_student has refused a student_id that is stored under another name, with
\* two students stored.
C17_Witness ==
    /\ sres # <<>> /\ sres[1].op = "add_student"
    /\ sres[1].ret = FALSE
    /\ Len(students_file) = 2
    /\ \E i \in DOMAIN students_file :
          /\ students_file[i].student_id = sres[1].arg[1].student_id
          /\ students_file[i].name # sres[1].arg[1].name

\* C18: for every progress record, completion_rate < 0.3 or average_performance
\* < 0.4 triggers a re-planning whose profile has current_level beginner and
\* learning_pace slow; completion_rate > 0.8 or average_performance > 0.8 triggers
\* one whose profile has current_level advanced and learning_pace fast.
C18_ThresholdsForceLevelAndPace ==
    (call # <<>> /\ call[1].fn = "_analyze_progress" /\ ret # <<>>) =>
        LET p == call[1].student_progress
            Below(v, x) == v # <<>> /\ v[1] < x
            Above(v, x) == v # <<>> /\ v[1] > x
        IN /\ (Below(p.completion_rate, 30) \/ Below(p.average_performance, 40)) =>
                /\ ret[2].needs_adaptation /\ ret[1] # <<>>
                /\ ret[1][1].current_level = "beginner"
                /\ ret[1][1].learning_pace = "slow"
           /\ (Above(p.completion_rate, 80) \/ Above(p.average_performance, 80)) =>
                /\ ret[2].needs_adaptation /\ ret[1] # <<>>
                /\ ret[1][1].current_level = "advanced"
                /\ ret[1][1].learning_pace = "fast"

\* C19: the target objective count is clamp(target_duration // 30, 3, 10) whenever
\* a target_duration is given, whatever integer it is, and otherwise the base
\* count of the level (beginner 4, intermediate 6, advanced 8) clamped the same way.
C19_CountFromTargetOrLevel ==
    (call # <<>> /\ call[1].fn = "_determine_objective_count" /\ ret # <<>>
     /\ call[1].path_level \in {"beginner", "intermediate", "advanced"}) =>
        LET clamp(x) == Min(Max(3, x), 10)
            base == CASE call[1].path_level = "beginner" -> 4
                      [] call[1].path_level = "intermediate" -> 6
                      [] call[1].path_level = "advanced" -> 8
        IN ret[1] = IF call[1].target_duration # <<>>
                    THEN clamp(call[1].target_duration[1] \div 30)
                    ELSE clamp(base)

\* round(n / d) for n >= 0 and d > 0, ties to the even neighbour.
round_ratio(n, d) ==
    LET q == n \div d
        r == n % d
    IN IF 2 * r < d THEN q
       ELSE IF 2 * r > d THEN q + 1
       ELSE IF q % 2 = 0 THEN q ELSE q + 1

\* C20: for every word count and every difficulty among beginner, intermediate,
\* advanced and expert, the duration of an objective built from content is
\* clamp(round(word_count / 50 * multiplier), 15, 60), the multipliers being
\* 0.8, 1.0, 1.3 and 1.5.
C20_DurationIsClampedRoundedRate ==
    (call # <<>> /\ call[1].fn = "_estimate_objective_duration" /\ ret # <<>>) =>
        ret[1] = Min(Max(15, round_ratio(call[1].words
                                           * DifficultyMultiplier10(call[1].difficulty),
                                         500)),
                     60)

\* The objectives of difficulty rank r in a list, in list order.
OfDifficultyRank(objectives, r) ==
    SelectSeq(objectives, LAMBDA o : DifficultyRank(o.difficulty_level) = r)

IsPrefixOf(s, t) == Len(s) <= Len(t) /\ s = SubSeq(t, 1, Len(s))

\* C21: the list plan_objectives returns is in non-decreasing difficulty rank
\* (beginner < intermediate < advanced < expert < unknown); the objectives of one
\* rank stand in the order in which the subject loop and the filler step produced
\* them; sorting the returned list again gives the same list.
C21_SortedStableIdempotent ==
    pOut # <<>> =>
        LET returned == pOut[1]
        IN /\ \A i, j \in DOMAIN returned :
                 i < j => DifficultyRank(returned[i].difficulty_level)
                          <= DifficultyRank(returned[j].difficulty_level)
           /\ \A r \in 0..4 : IsPrefixOf(OfDifficultyRank(returned, r),
                                         OfDifficultyRank(pAll[1], r))
           /\ _sort_objectives_by_difficulty_and_prerequisites(returned) = returned

\* The sort has moved a filler objective in front of objectives produced before
\* it, and two different objectives of one rank are in the returned list.
C21_Witness ==
    /\ pOut # <<>> /\ pAll[1] # pOut[1]
    /\ \E i, j \in DOMAIN pOut[1] :
          /\ i < j
          /\ pOut[1][i] # pOut[1][j]
          /\ pOut[1][i].difficulty_level = pOut[1][j].difficulty_level

\* C22: for every non-empty candidate list and every primary style, known or not,
\* _filter_content_by_learning_style returns a non-empty sub-list of the
\* candidates, and all candidates when none of them has an allowed content type.
C22_FilterNeverEmpties ==
    (call # <<>> /\ call[1].fn = "_filter_content_by_learning_style" /\ ret # <<>>) =>
        LET content == call[1].content
            allowed == PreferredTypes(Get(call[1].learning_style.primary_style, "visual"))
        IN /\ ret[1] # <<>>
           /\ ret[1] = SelectSeq(content, LAMBDA item : item \in Range(ret[1]))
           /\ (\A item \in Range(content) : Get(item.content_type, "lesson") \notin allowed)
                  => ret[1] = content

\* Two candidates whose content types the style does not allow: both are returned;
\* and the style is one the filter has no entry for.
C22_Witness ==
    /\ call # <<>> /\ call[1].fn = "_filter_content_by_learning_style" /\ ret # <<>>
    /\ call[1].learning_style.primary_style = "reading_writing"
    /\ Len(call[1].content) = 2
    /\ \A item \in Range(call[1].content) : item.content_type \in {"exercise", "assessment"}
    /\ ret[1] = call[1].content

\* C23: the level _determine_path_level returns has a maximal vote total, where
\* current_level gives 2 votes to its level, average_performance 1 (above 0.8
\* advanced, above 0.6 intermediate, else beginner), the pace 1 (fast advanced,
\* slow beginner) and the time availability 1 (high advanced, low beginner);
\* intermediate gets votes from current_level and the performance only.
C23_MaximalVoteLevel ==
    (call # <<>> /\ call[1].fn = "_determine_path_level" /\ ret # <<>>
     /\ ret[1] # "KeyError") =>
        LET p == call[1].student_profile
            current_level == Get(p.current_level, "beginner")
            performance == GetOpt(p.average_performance, 50)
            votes ==
                [beginner |->
                    (IF current_level = "beginner" THEN 2 ELSE 0)
                    + (IF performance <= 60 THEN 1 ELSE 0)
                    + (IF p.learning_pace = "slow" THEN 1 ELSE 0)
                    + (IF p.time_availability = "low" THEN 1 ELSE 0),
                 intermediate |->
                    (IF current_level = "intermediate" THEN 2 ELSE 0)
                    + (IF performance > 60 /\ performance <= 80 THEN 1 ELSE 0),
                 advanced |->
                    (IF current_level = "advanced" THEN 2 ELSE 0)
                    + (IF performance > 80 THEN 1 ELSE 0)
                    + (IF p.learning_pace = "fast" THEN 1 ELSE 0)
                    + (IF p.time_availability = "high" THEN 1 ELSE 0)]
        IN /\ ret[1] \in DOMAIN votes
           /\ \A l \in DOMAIN votes : votes[l] <= votes[ret[1]]

\* A profile of current_level intermediate is outvoted: a slow pace, little time
\* and a performance of 0.6 give beginner three votes.
C23_Witness ==
    /\ call # <<>> /\ call[1].fn = "_determine_path_level" /\ ret = <<"beginner">>
    /\ call[1].student_profile.current_level = "intermediate"
    /\ call[1].student_profile.average_performance = <<60>>
    /\ call[1].student_profile.learning_pace = "slow"
    /\ call[1].student_profile.time_availability = "low"

\* The objectives of a list that the filler step made / that the subject loop made.
Fillers(objectives) == SelectSeq(objectives, LAMBDA o : o.id[2] = "additional")
FromContent(objectives) == SelectSeq(objectives, LAMBDA o : o.id[2] # "additional")

\* C24: when the subject loop produced fewer objectives than the target count,
\* plan_objectives adds one filler (difficulty beginner, 30 minutes) for each
\* subject that occurs in available_content and has no objective yet, until the
\* target count is reached or those subjects are exhausted; no subject that has an
\* objective gets a filler and no subject gets two.
C24_OneFillerPerUncoveredSubject ==
    pOut # <<>> =>
        LET content == pIn[1].available_content
            n_objectives == _determine_objective_count(pIn[1].path_level,
                                                       pIn[1].target_duration)
            produced == FromContent(pAll[1])
            fillers == Fillers(pAll[1])
            covered == {o.subject : o \in Range(produced)}
            uncovered == {item.subject : item \in Range(content)} \ (covered \cup {NoKey})
        IN /\ \A i \in DOMAIN fillers :
                 /\ fillers[i].difficulty_level = "beginner"
                 /\ fillers[i].estimated_duration = 30
                 /\ fillers[i].subject \in uncovered
                 /\ \A j \in DOMAIN fillers : fillers[j].subject = fillers[i].subject => i = j
           /\ pAll[1] = produced \o fillers
           /\ Len(fillers) = IF Len(produced) < n_objectives
                             THEN Min(n_objectives - Len(produced), Cardinality(uncovered))
                             ELSE 0
           /\ \A o \in Range(fillers) : o \in Range(pOut[1])

\* The pool has four subjects and the target count is three: three fillers were
\* added and one subject without an objective got none.
C24_Witness ==
    /\ pOut # <<>>
    /\ Len(Fillers(pOut[1])) = 3 /\ Len(pOut[1]) = 3
    /\ Cardinality({item.subject : item \in Range(pIn[1].available_content)}) = 4

\* C25: in one list returned by plan_objectives the content_ids of the objectives
\* are pairwise disjoint, also when the progression of the level names a
\* difficulty twice and the subject's share exceeds the number of candidate items
\* of that difficulty.
C25_ContentIdsDisjoint ==
    pOut # <<>> =>
        \A i, j \in DOMAIN pOut[1] :
            i # j => Range(pOut[1][i].content_ids) \cap Range(pOut[1][j].content_ids) = {}

\* C26: after any sequence of add_student, update_student and delete_student calls
\* no two stored student records have the same student_id.
C26_StudentIdsUnique ==
    \A i, j \in DOMAIN students_file :
        students_file[i].student_id = students_file[j].student_id => i = j

\* C27: after generate_learning_path and any adapt_learning_path calls that follow
\* it, the subject of every objective is one of path.subjects (the retrieval
\* returning only items of the subject asked for); a path generated without
\* objectives, and so without subjects, gains none by adaptation.
C27_ObjectiveSubjectsWithinPathSubjects ==
    path # <<>> =>
        /\ \A o \in Range(path[1].objectives) : o.subject \in Range(path[1].subjects)
        /\ path[1].subjects = <<>> => path[1].objectives = <<>>

\* A triggered adaptation has re-planned a path of two subjects, and all its
\* objectives now are of one of them.
C27_Witness ==
    /\ path # <<>> /\ last.op = "adapt" /\ last.triggered
    /\ Len(path[1].subjects) = 2
    /\ path[1].objectives # <<>>
    /\ Cardinality({o.subject : o \in Range(path[1].objectives)}) = 1

\* C28: the list plan_objectives has assembled before the final truncation never
\* holds more objectives than the target count: every subject contributed at most
\* floor(count / number of subjects) objectives and the fillers stopped at the
\* target, so the truncation removes nothing.
C28_TruncationRemovesNothing ==
    pOut # <<>> =>
        LET n_objectives == _determine_objective_count(pIn[1].path_level,
                                                       pIn[1].target_duration)
            subjects == {ItemSubject(item) : item \in Range(pIn[1].available_content)}
            produced == FromContent(pAll[1])
        IN /\ Len(pAll[1]) <= n_objectives
           /\ \A s \in subjects :
                 Len(SelectSeq(produced, LAMBDA o : o.subject = s))
                    <= n_objectives \div Cardinality(subjects)
           /\ Len(pOut[1]) = Len(pAll[1])

\* Two subjects have used their share and a filler for a third has brought the
\* list to the target count exactly.
C28_Witness ==
    /\ pOut # <<>>
    /\ Len(pAll[1]) = _determine_objective_count(pIn[1].path_level, pIn[1].target_duration)
    /\ Cardinality({o.subject : o \in Range(FromContent(pAll[1]))}) = 2
    /\ Fillers(pAll[1]) # <<>>

\* C29: whenever the analysis of a progress record triggers a re-planning, the
\* path level handed to the planner is beginner or advanced, never intermediate;
\* when a low and a high threshold fire together the level is the one the
\* average_performance sets.
C29_ReplanLevelNeverIntermediate ==
    (call # <<>> /\ call[1].fn = "_analyze_progress" /\ ret # <<>>
     /\ ret[2].needs_adaptation) =>
        LET c == call[1].student_progress.completion_rate
            p == call[1].student_progress.average_performance
        IN /\ ret[2].path_level \in {"beginner", "advanced"}
           /\ (c # <<>> /\ p # <<>> /\ c[1] > 80 /\ p[1] < 40)
                 => ret[2].path_level = "beginner"
           /\ (c # <<>> /\ p # <<>> /\ c[1] < 30 /\ p[1] > 80)
                 => ret[2].path_level = "advanced"

\* completion_rate 0.81 and average_performance 0.39: the re-planning is for
\* level beginner.
C29_Witness ==
    /\ call # <<>> /\ call[1].fn = "_analyze_progress" /\ ret # <<>>
    /\ call[1].student_progress.completion_rate = <<81>>
    /\ call[1].student_progress.average_performance = <<39>>
    /\ ret[2].needs_adaptation
    /\ ret[2].path_level = "beginner"

\* C30: every re-planning done by adapt_learning_path hands the planner the primary
\* style visual with secondary style auditory, whatever learning style the path
\* was generated for: the profile rebuilt for the adaptation carries no quiz
\* answers, content preferences, behaviour or performance patterns.
C30_ReplanningStyleIsVisual ==
    (last.op = "adapt" /\ last.triggered) => last.style = <<"visual", "auditory">>

\* A path generated for a kinesthetic learner has been re-planned and has
\* objectives.
C30_Witness ==
    /\ path # <<>> /\ last.op = "adapt" /\ last.triggered
    /\ path[1].description = "kinesthetic"
    /\ path[1].objectives # <<>>

====
